---- MODULE Spec2Model ----
(***************************************************************************)
(* koa-happy-router: the HappyRouter class of src/lib/index.ts.            *)
(*                                                                         *)
(* A JavaScript object literal is a sequence of <<key, value>> pairs in    *)
(* the order the fields were written; a Set<string> is a sequence without  *)
(* duplicates in insertion order; a Map<string, F> is a function whose     *)
(* domain is the set of keys present.                                      *)
(***************************************************************************)
EXTENDS Naturals, Sequences, FiniteSets, TLC

VARIABLES
    errorHandler,      \* this.errorHandler: is a handler configured
    middlewaresKeys,   \* this.middlewaresKeys: Set<string>
    middlewaresStack,  \* this.middlewaresStack: Map<string, Middlewares>
    routerStack,       \* this.routerInstance: the layers registered so far
    factoryCalls,      \* per layer, the factory invocations made to build it
    requests,          \* the requests dispatched to a layer, by context
    errorHandlerCalls, \* the invocations of this.errorHandler, in order
    callLog,           \* the setup calls made so far (kept by SpecApi, SpecTwo)
    prefix,            \* options.prefix, as given to the external router
    useStack,          \* the middlewares given to use(), in call order
    executed,          \* per request, the steps that have run, in order
    other,             \* a second router instance, with its own fields
    responses,         \* the responses of an application mounting both
    enableLogger,      \* this.enableLogger: is requestLogger installed
    logging,           \* per request, the state of its requestLogger call
    logs,              \* the lines given to console.log, in order
    frames             \* per request, how far each started step has got

vars == <<errorHandler, middlewaresKeys, middlewaresStack, routerStack,
          factoryCalls, requests, errorHandlerCalls, callLog, prefix,
          useStack, executed, other, responses, enableLogger, logging, logs,
          frames>>

setupVars == <<errorHandler, middlewaresKeys, middlewaresStack, routerStack,
               factoryCalls>>
servingVars == <<requests, errorHandlerCalls>>
useVars == <<prefix, useStack, executed>>
manyVars == <<other, responses>>
loggerVars == <<enableLogger, logging, logs>>
restVars == <<callLog, useVars, manyVars, loggerVars, frames>>

----------------------------------------------------------------------------
(* Bounds of the model                                                     *)

MaxRoutes == 1      \* layers registered with the external router
MaxSortLen == 2     \* keys in one sortMiddlewares call
MaxRequests == 2    \* requests dispatched
MaxCalls == 4       \* setup calls kept in the call log

----------------------------------------------------------------------------
(* Constants of the program                                                *)

Undefined == "undefined"

REQUEST_METHODS ==
    [ALL |-> "all", GET |-> "get", PUT |-> "put", POST |-> "post",
     PATCH |-> "patch", DELETE |-> "delete", OPTIONS |-> "options"]

INITIAL_METHOD == "ALL"

INITIAL_ROUTE_FIELDS == <<"url", "method", "middlewares", "handler">>

----------------------------------------------------------------------------
(* JavaScript objects, arrays and sets                                     *)

Range(s) == {s[i] : i \in 1..Len(s)}

Includes(s, x) == \E i \in 1..Len(s) : s[i] = x

\* [...a, ...b]
Concat(a, b) == a \o b

\* array.map
Map(s, Op(_)) == [i \in 1..Len(s) |-> Op(s[i])]

\* array.filter
Filter(s, Test(_)) == SelectSeq(s, Test)

\* the canonical array-index keys of the model, in ascending numeric order
ArrayIndexKeys == <<"0", "1", "2">>

OwnKeys(o) == [i \in 1..Len(o) |-> o[i][1]]

HasOwn(o, k) == \E i \in 1..Len(o) : o[i][1] = k

\* o[k]: undefined for a key the object does not have
Get(o, k) ==
    IF HasOwn(o, k) THEN o[CHOOSE i \in 1..Len(o) : o[i][1] = k][2]
    ELSE Undefined

\* Object.keys: integer-like keys first, ascending, then the string keys in
\* the order they were written
ObjectKeys(o) ==
    LET IsIndex(k) == Includes(ArrayIndexKeys, k)
        Present(k) == HasOwn(o, k)
        NotIndex(k) == ~IsIndex(k)
    IN  Concat(Filter(ArrayIndexKeys, Present), Filter(OwnKeys(o), NotIndex))

\* as SetAdd, a key added again moved to the end
SetAdd_MoveToEnd(set, key) ==
    LET Other(k) == k # key IN Append(SelectSeq(set, Other), key)

\* Set.prototype.add on an insertion-ordered set
SetAdd(set, key) == IF Includes(set, key) THEN set ELSE Append(set, key)

\* Map.prototype.has / get (get of a missing key is undefined)
MapHas(map, key) == key \in DOMAIN map
MapGet(map, key) == IF key \in DOMAIN map THEN map[key] ELSE Undefined

EmptyMap == [k \in {} |-> Undefined]

----------------------------------------------------------------------------
(* Inputs                                                                  *)

\* names a caller registers or declares: two ordinary names, one of them
\* integer-like, and the four reserved route fields
ExtraNames == {"1", "a"}
ReservedNames == Range(INITIAL_ROUTE_FIELDS)

Factories == {"f1", "f2"}

\* registerMiddlewares arguments: any mapping over ordinary names, or the
\* four reserved names together
RegisterInputs ==
    UNION {[D -> Factories] : D \in SUBSET ExtraNames}
    \cup {[k \in ReservedNames |-> "f1"]}

\* sortMiddlewares arguments: no argument, or a list (duplicates allowed)
SortLists ==
    UNION {[1..n -> ExtraNames] : n \in 0..MaxSortLen}
    \cup {INITIAL_ROUTE_FIELDS}
SortInputs ==
    {[given |-> FALSE, keys |-> <<>>]}
    \cup {[given |-> TRUE, keys |-> l] : l \in SortLists}

ExtraParts ==
    {<< >>,
     << <<"a", "v2">> >>,
     << <<"a", "v2">>, <<"1", "v1">> >>}
MiddlewaresParts == {<< >>, << <<"middlewares", <<"m2", "m1">> >> >>}
HandlerPart == << <<"handler", "h1">> >>

\* a route literal {url, method?, ...extras, middlewares?, handler?}
RouteOf(extras, mws, handler) ==
    << <<"url", "/x">> >>
    \o (IF mws = << >> THEN << >> ELSE << <<"method", "GET">> >>)
    \o extras \o mws \o handler

\* every combination of extras and route-local middlewares with a handler,
\* and one route that has no handler
Routes ==
    {RouteOf(e, w, HandlerPart) : e \in ExtraParts, w \in MiddlewaresParts}
    \cup {RouteOf(<< <<"a", "v2">> >>, << >>, << >>)}

RouteLists == UNION {[1..n -> Routes] : n \in 0..MaxRoutes}

----------------------------------------------------------------------------
(* constructor                                                             *)

\* the fields of a router instance other than this one
NewInstance(options) ==
    [errorHandler     |-> options.errorHandler,
     prefix           |-> options.prefix,
     middlewaresKeys  |-> << >>,
     middlewaresStack |-> EmptyMap,
     routerStack      |-> << >>,
     factoryCalls     |-> << >>,
     useStack         |-> << >>,
     applied          |-> {},
     sameOrder        |-> TRUE,
     registerOrder    |-> TRUE]

\* this.enableLogger = !!options?.logger
EnableLogger(options) == "logger" \in DOMAIN options /\ options.logger

\* this instance after construction, and a second instance constructed with
\* options of its own
Constructor(options) ==
    /\ errorHandler = options.errorHandler
    /\ prefix = IF "prefix" \in DOMAIN options THEN options.prefix ELSE ""
    /\ useStack = << >>
    /\ executed = << >>
    /\ other = NewInstance([errorHandler |-> FALSE, prefix |-> "/two"])
    /\ responses = << >>
    /\ enableLogger = EnableLogger(options)
    /\ logging = << >>
    /\ logs = << >>
    /\ frames = << >>
    /\ middlewaresKeys = << >>
    /\ middlewaresStack = EmptyMap
    /\ routerStack = << >>
    /\ factoryCalls = << >>
    /\ requests = << >>
    /\ errorHandlerCalls = << >>
    /\ callLog = << >>

----------------------------------------------------------------------------
(* addRoutes                                                               *)

\* as RouteMiddlewaresKeys, without the test on the reserved fields
RouteMiddlewaresKeys_NoReserved(route, stack) ==
    LET Used(key) == MapHas(stack, key)
    IN  Filter(ObjectKeys(route), Used)

\* as RouteMiddlewaresKeys, without the test on the registry
RouteMiddlewaresKeys_NoHas(route, stack) ==
    LET Used(key) == ~Includes(INITIAL_ROUTE_FIELDS, key)
    IN  Filter(ObjectKeys(route), Used)

\* Object.keys(route).filter(key => !INITIAL_ROUTE_FIELDS.includes(key)
\*                                  && this.middlewaresStack.has(key))
RouteMiddlewaresKeys(route, stack) ==
    LET Used(key) == /\ ~Includes(INITIAL_ROUTE_FIELDS, key)
                     /\ MapHas(stack, key)
    IN  Filter(ObjectKeys(route), Used)

\* as MiddlewaresKeysOf, the declared keys selecting but not ordering
MiddlewaresKeysOf_FieldOrder(route, keys, stack) ==
    LET routeMiddlewaresKeys == RouteMiddlewaresKeys(route, stack)
        IsDeclared(key) == Includes(keys, key)
    IN  IF Len(keys) > 0
        THEN Filter(routeMiddlewaresKeys, IsDeclared)
        ELSE routeMiddlewaresKeys

\* as MiddlewaresKeysOf, the undeclared keys of the route kept at the end
MiddlewaresKeysOf_KeepUndeclared(route, keys, stack) ==
    LET routeMiddlewaresKeys == RouteMiddlewaresKeys(route, stack)
        InRoute(key) == Includes(routeMiddlewaresKeys, key)
        Undeclared(key) == ~Includes(keys, key)
    IN  Concat(Filter(keys, InRoute), Filter(routeMiddlewaresKeys, Undeclared))

\* as MiddlewaresKeysOf, every declared and registered key loaded
MiddlewaresKeysOf_AllDeclared(route, keys, stack) ==
    LET routeMiddlewaresKeys == RouteMiddlewaresKeys(route, stack)
        Registered(key) == /\ ~Includes(INITIAL_ROUTE_FIELDS, key)
                           /\ MapHas(stack, key)
    IN  IF Len(keys) > 0
        THEN Filter(keys, Registered)
        ELSE routeMiddlewaresKeys

\* the declared order, when there is one, both orders and filters
MiddlewaresKeysOf(route, keys, stack) ==
    LET routeMiddlewaresKeys == RouteMiddlewaresKeys(route, stack)
        InRoute(key) == Includes(routeMiddlewaresKeys, key)
    IN  IF Len(keys) > 0
        THEN Filter(keys, InRoute)
        ELSE routeMiddlewaresKeys

\* as Instantiate, the factory given the route instead of route[key]
Instantiate_WholeRoute(route, stack, key) ==
    [kind |-> "registry", name |-> key,
     fn |-> MapGet(stack, key), arg |-> route]

\* middlewareInstance(route[key]): the middleware a factory returns
Instantiate(route, stack, key) ==
    [kind |-> "registry", name |-> key,
     fn |-> MapGet(stack, key), arg |-> Get(route, key)]

LocalMiddleware(m) ==
    [kind |-> "route", name |-> m, fn |-> Undefined, arg |-> Undefined]

\* (ctx, next) => route.handler && this.createHandler(route.handler, ctx, next)
FinalStep ==
    [kind |-> "final", name |-> Undefined, fn |-> Undefined,
     arg |-> Undefined]

\* as RouteMiddlewares, the route's own middlewares put first
RouteMiddlewares_LocalFirst(route, keys, stack) ==
    LET Inst(key) == Instantiate(route, stack, key)
    IN  Concat(Map(IF HasOwn(route, "middlewares")
                   THEN Get(route, "middlewares") ELSE << >>,
                   LocalMiddleware),
               Map(MiddlewaresKeysOf(route, keys, stack), Inst))

RouteMiddlewares(route, keys, stack) ==
    LET Inst(key) == Instantiate(route, stack, key)
    IN  Concat(Map(MiddlewaresKeysOf(route, keys, stack), Inst),
               Map(IF HasOwn(route, "middlewares")
                   THEN Get(route, "middlewares") ELSE << >>,
                   LocalMiddleware))

\* as RouteMethod, a route without method registered for GET
RouteMethod_DefaultGet(route) ==
    REQUEST_METHODS[IF HasOwn(route, "method") THEN Get(route, "method")
                    ELSE "GET"]

RouteMethod(route) ==
    REQUEST_METHODS[IF HasOwn(route, "method") THEN Get(route, "method")
                    ELSE INITIAL_METHOD]

\* routerInstance[routeMethod](route.url, ...routeMiddlewares, final)
Layer(route, keys, stack) ==
    [method |-> RouteMethod(route),
     path   |-> Get(route, "url"),
     stack  |-> Append(RouteMiddlewares(route, keys, stack), FinalStep),
     route  |-> route]

\* the factory invocations of one route, in the order they are made
CallsOf(route, keys, stack) ==
    LET Inst(key) == Instantiate(route, stack, key)
    IN  Map(MiddlewaresKeysOf(route, keys, stack), Inst)

\* routesList.forEach((route) => { ... routeInstance(...) })
CompileRoutes(routesList) ==
    /\ LET Compile(route) == Layer(route, middlewaresKeys, middlewaresStack)
           Calls(route) == CallsOf(route, middlewaresKeys, middlewaresStack)
       IN  /\ routerStack' = Concat(routerStack, Map(routesList, Compile))
           /\ factoryCalls' = Concat(factoryCalls, Map(routesList, Calls))
    /\ UNCHANGED <<errorHandler, middlewaresKeys, middlewaresStack>>
    /\ UNCHANGED servingVars

\* addRoutes, while the external router holds fewer layers than the bound
AddRoutes(routesList) ==
    /\ Len(routerStack) + Len(routesList) <= MaxRoutes
    /\ CompileRoutes(routesList)

----------------------------------------------------------------------------
(* sortMiddlewares                                                         *)

RECURSIVE AddKeys(_, _)
AddKeys(set, keys) ==
    IF keys = << >> THEN set
    ELSE AddKeys(SetAdd(set, Head(keys)), Tail(keys))

SortMiddlewares(call) ==
    /\ LET keys == IF call.given THEN call.keys ELSE << >>
       IN  middlewaresKeys' = AddKeys(middlewaresKeys, keys)
    /\ UNCHANGED <<errorHandler, middlewaresStack, routerStack, factoryCalls>>
    /\ UNCHANGED servingVars

----------------------------------------------------------------------------
(* registerMiddlewares                                                     *)

\* as MapSetAll, a name already registered keeping its factory
MapSetAll_KeepFirst(map, middlewares) ==
    [key \in DOMAIN map \cup DOMAIN middlewares |->
        IF key \in DOMAIN map THEN map[key] ELSE middlewares[key]]

\* Object.keys(middlewares).forEach(key => this.middlewaresStack.set(...))
MapSetAll(map, middlewares) ==
    [key \in DOMAIN map \cup DOMAIN middlewares |->
        IF key \in DOMAIN middlewares THEN middlewares[key] ELSE map[key]]

\* as RegisterMiddlewares, the compiled chains looking their factories up in
\* the registry as it is now
RegisterMiddlewares_Relink(middlewares) ==
    LET Relink(step) ==
          IF step.kind = "registry"
          THEN [step EXCEPT !.fn = MapGet(middlewaresStack', step.name)]
          ELSE step
        RelinkLayer(layer) == [layer EXCEPT !.stack = Map(layer.stack, Relink)]
    IN  /\ middlewaresStack' = MapSetAll(middlewaresStack, middlewares)
        /\ routerStack' = Map(routerStack, RelinkLayer)
        /\ UNCHANGED <<errorHandler, middlewaresKeys, factoryCalls>>
        /\ UNCHANGED servingVars

RegisterMiddlewares(middlewares) ==
    /\ middlewaresStack' = MapSetAll(middlewaresStack, middlewares)
    /\ UNCHANGED <<errorHandler, middlewaresKeys, routerStack, factoryCalls>>
    /\ UNCHANGED servingVars

----------------------------------------------------------------------------
(* Serving a request: the chain of the matched layer, then createHandler   *)

NoError == "none"

\* what a handler throws, what it rejects with, and what errorHandler throws
Errors == {"e1", "e2"}
ErrorHandlerError == "e3"

\* a handler returns a value, throws, or returns a promise still pending
HandlerBehaviours ==
    {[how |-> "returned", error |-> NoError],
     [how |-> "pending", error |-> NoError],
     [how |-> "threw", error |-> "e1"]}

\* a pending promise resolves or rejects
PromiseResults ==
    {[how |-> "resolved", error |-> NoError],
     [how |-> "rejected", error |-> "e2"]}

\* errorHandler returns after writing the response, throws, or returns with
\* its work still to do (an async function, whose promise nothing awaits)
ErrorHandlerBehaviours == {"returned", "threw", "deferred"}

Failed(result) == result.how \in {"threw", "rejected"}

\* the router matched the request to a layer and starts its chain
NewRequest(id, layer) ==
    [ctx |-> id, layer |-> layer, pos |-> 1, pc |-> "chain",
     handlerCalls |-> 0, handled |-> [how |-> "none", error |-> NoError],
     outcome |-> "pending", error |-> NoError, body |-> <<"none", "none">>]

Dispatch(layer) ==
    /\ Len(requests) < MaxRequests
    /\ layer \in 1..Len(routerStack)
    /\ requests' = Append(requests, NewRequest(Len(requests) + 1, layer))
    /\ UNCHANGED <<setupVars, errorHandlerCalls>>

StepOf(req) == routerStack[req.layer].stack[req.pos]

\* a registry-resolved or route-local middleware calls next()
MiddlewareNext(r) ==
    /\ r \in 1..Len(requests)
    /\ requests[r].pc = "chain"
    /\ StepOf(requests[r]).kind # "final"
    /\ requests' = [requests EXCEPT ![r].pos = @ + 1]
    /\ UNCHANGED <<setupVars, errorHandlerCalls>>

\* as CreateHandler, the error caught whether or not errorHandler is set
CreateHandler_CatchAll(configured, context, result, behaviour) ==
    IF configured /\ Failed(result)
    THEN [outcome |-> IF behaviour = "threw" THEN "rejected" ELSE "fulfilled",
          error   |-> IF behaviour = "threw" THEN ErrorHandlerError
                      ELSE NoError,
          caught  |-> << [error |-> result.error, ctx |-> context,
                          result |-> behaviour] >>]
    ELSE [outcome |-> "fulfilled", error |-> NoError, caught |-> << >>]

\* as CreateHandler, the caught error thrown again after errorHandler
CreateHandler_Rethrow(configured, context, result, behaviour) ==
    IF Failed(result)
    THEN [outcome |-> "rejected", error |-> result.error,
          caught |-> IF configured
                     THEN << [error |-> result.error, ctx |-> context,
                              result |-> behaviour] >>
                     ELSE << >>]
    ELSE [outcome |-> "fulfilled", error |-> NoError, caught |-> << >>]

\* as CreateHandler, an error thrown by errorHandler caught as well
CreateHandler_GuardsErrorHandler(configured, context, result, behaviour) ==
    IF Failed(result)
    THEN IF configured
         THEN [outcome |-> "fulfilled", error |-> NoError,
               caught |-> << [error |-> result.error, ctx |-> context,
                              result |-> behaviour] >>]
         ELSE [outcome |-> "rejected", error |-> result.error,
               caught |-> << >>]
    ELSE [outcome |-> "fulfilled", error |-> NoError, caught |-> << >>]

\* createHandler once `await handler(context, next)` has a result: how the
\* wrapped handler settles and the errorHandler invocations it makes
CreateHandler(configured, context, result, behaviour) ==
    IF configured
    THEN IF Failed(result)
         THEN [outcome |-> IF behaviour = "threw" THEN "rejected"
                           ELSE "fulfilled",
               error   |-> IF behaviour = "threw" THEN ErrorHandlerError
                           ELSE NoError,
               caught  |-> << [error |-> result.error, ctx |-> context,
                               result |-> behaviour] >>]
         ELSE [outcome |-> "fulfilled", error |-> NoError, caught |-> << >>]
    ELSE IF Failed(result)
         THEN [outcome |-> "rejected", error |-> result.error,
               caught |-> << >>]
         ELSE [outcome |-> "fulfilled", error |-> NoError, caught |-> << >>]

\* the response after the wrapped handler settled
BodyAfter(req, result, settled) ==
    IF settled.caught # << >> /\ settled.caught[1].result = "returned"
    THEN <<"errorHandler", result.error>>
    ELSE IF Failed(result) THEN req.body
    ELSE <<"handler", Get(routerStack[req.layer].route, "handler")>>

\* as Settle, a handler that failed called a second time
Settle_Retry(r, result, behaviour) ==
    LET req == requests[r]
        calls == IF req.pc = "chain" THEN 1 ELSE req.handlerCalls
        settled == CreateHandler(errorHandler, req.ctx, result, behaviour)
    IN  IF Failed(result) /\ calls = 1
        THEN /\ requests' = [requests EXCEPT ![r].pc = "running",
                                             ![r].handlerCalls = 2]
             /\ UNCHANGED errorHandlerCalls
        ELSE /\ requests' =
                  [requests EXCEPT ![r] =
                     [req EXCEPT !.pc = "settled", !.handled = result,
                                 !.outcome = settled.outcome,
                                 !.error = settled.error,
                                 !.body = BodyAfter(req, result, settled),
                                 !.handlerCalls = calls]]
             /\ errorHandlerCalls' = Concat(errorHandlerCalls, settled.caught)

Settle(r, result, behaviour) ==
    LET req == requests[r]
        settled == CreateHandler(errorHandler, req.ctx, result, behaviour)
    IN  /\ requests' =
             [requests EXCEPT ![r] =
                [req EXCEPT !.pc = "settled", !.handled = result,
                            !.outcome = settled.outcome,
                            !.error = settled.error,
                            !.body = BodyAfter(req, result, settled),
                            !.handlerCalls = IF req.pc = "chain" THEN 1
                                             ELSE @]]
        /\ errorHandlerCalls' = Concat(errorHandlerCalls, settled.caught)

\* as InvokeFinal, createHandler called whether or not the route has a handler
InvokeFinal_AlwaysWraps(r, handler, behaviour) ==
    /\ r \in 1..Len(requests)
    /\ requests[r].pc = "chain"
    /\ StepOf(requests[r]).kind = "final"
    /\ IF handler.how = "pending"
       THEN /\ requests' = [requests EXCEPT ![r].pc = "running",
                                            ![r].handlerCalls = 1]
            /\ UNCHANGED errorHandlerCalls
       ELSE Settle(r, handler, behaviour)
    /\ UNCHANGED setupVars

\* as InvokeFinal, the last step not waiting for the promise of a handler
InvokeFinal_NotAwaited(r, handler, behaviour) ==
    /\ r \in 1..Len(requests)
    /\ requests[r].pc = "chain"
    /\ StepOf(requests[r]).kind = "final"
    /\ IF ~HasOwn(routerStack[requests[r].layer].route, "handler")
       THEN /\ requests' = [requests EXCEPT ![r].pc = "settled",
                                            ![r].outcome = "fulfilled"]
            /\ UNCHANGED errorHandlerCalls
       ELSE IF handler.how = "pending"
       THEN /\ requests' = [requests EXCEPT ![r].pc = "settled",
                                            ![r].handlerCalls = 1,
                                            ![r].handled = handler,
                                            ![r].outcome = "fulfilled"]
            /\ UNCHANGED errorHandlerCalls
       ELSE Settle(r, handler, behaviour)
    /\ UNCHANGED setupVars

\* the final step of the chain:
\* route.handler && this.createHandler(route.handler, ctx, next)
InvokeFinal(r, handler, behaviour) ==
    /\ r \in 1..Len(requests)
    /\ requests[r].pc = "chain"
    /\ StepOf(requests[r]).kind = "final"
    /\ IF ~HasOwn(routerStack[requests[r].layer].route, "handler")
       THEN /\ requests' = [requests EXCEPT ![r].pc = "settled",
                                            ![r].outcome = "fulfilled"]
            /\ UNCHANGED errorHandlerCalls
       ELSE IF handler.how = "pending"
       THEN /\ requests' = [requests EXCEPT ![r].pc = "running",
                                            ![r].handlerCalls = 1]
            /\ UNCHANGED errorHandlerCalls
       ELSE Settle(r, handler, behaviour)
    /\ UNCHANGED setupVars

\* the promise the handler returned settles and createHandler resumes
HandlerSettles(r, result, behaviour) ==
    /\ r \in 1..Len(requests)
    /\ requests[r].pc = "running"
    /\ Settle(r, result, behaviour)
    /\ UNCHANGED setupVars

\* an errorHandler that returned with its work still to do writes the
\* response, after the wrapped handler has settled
ErrorHandlerCompletes(r) ==
    /\ r \in 1..Len(requests)
    /\ requests[r].pc = "settled"
    /\ \E n \in 1..Len(errorHandlerCalls) :
         /\ errorHandlerCalls[n].ctx = requests[r].ctx
         /\ errorHandlerCalls[n].result = "deferred"
         /\ requests[r].body # <<"errorHandler", errorHandlerCalls[n].error>>
         /\ requests' =
              [requests EXCEPT ![r].body =
                 <<"errorHandler", errorHandlerCalls[n].error>>]
    /\ UNCHANGED <<setupVars, errorHandlerCalls>>

----------------------------------------------------------------------------
(* use, and the chain the external router runs for a matched request       *)

\* the middlewares an application passes to use(), named in the order it
\* passes them
UseMiddlewares == <<"u1", "u2", "u3">>

UseStep(name) ==
    [kind |-> "use", name |-> name, fn |-> Undefined, arg |-> Undefined]

\* routerInstance.use(...middleware): each middleware becomes a layer of the
\* external router, after the layers it holds already
Use(middleware) ==
    /\ useStack' =
         Concat(useStack,
                [i \in 1..Len(middleware) |->
                   [name |-> middleware[i], at |-> Len(routerStack)]])
    /\ UNCHANGED <<setupVars, servingVars, prefix, executed>>

\* as UseLayersBefore, every use() layer whenever it was added
UseLayersBefore_All(layer) ==
    LET Step(u) == UseStep(u.name) IN Map(useStack, Step)

\* the use() layers registered before, and after, a route's layer
UseLayersBefore(layer) ==
    LET Earlier(u) == u.at < layer
        Step(u) == UseStep(u.name)
    IN  Map(SelectSeq(useStack, Earlier), Step)

UseLayersAfter(layer) ==
    LET Later(u) == u.at >= layer
        Step(u) == UseStep(u.name)
    IN  Map(SelectSeq(useStack, Later), Step)

\* routes(): the layers matching a request are run in the order they were
\* registered, each step reached when the step before it calls next()
Matched(layer) ==
    Concat(Concat(UseLayersBefore(layer), routerStack[layer].stack),
           UseLayersAfter(layer))

\* the step a request runs next
NextStep(r) == Matched(requests[r].layer)[Len(executed[r]) + 1]

Ran(r, step) == executed' = [executed EXCEPT ![r] = Append(@, step)]

\* a use() middleware: ctx.body = ctx.body || ...; await next()
UseMiddlewareRuns(r) ==
    /\ r \in 1..Len(requests)
    /\ requests[r].pc = "chain"
    /\ NextStep(r).kind = "use"
    /\ requests' =
         [requests EXCEPT ![r].body =
            IF @ = <<"none", "none">> THEN <<"use", NextStep(r).name>> ELSE @]
    /\ Ran(r, NextStep(r))
    /\ UNCHANGED <<setupVars, errorHandlerCalls, prefix, useStack>>

----------------------------------------------------------------------------
(* Setup of one router instance                                            *)

Init == Constructor([errorHandler |-> FALSE])

DoRegister ==
    \E m \in RegisterInputs : RegisterMiddlewares(m) /\ UNCHANGED restVars
DoSort ==
    \E c \in SortInputs : SortMiddlewares(c) /\ UNCHANGED restVars
DoAddRoutes ==
    \E l \in RouteLists : AddRoutes(l) /\ UNCHANGED restVars

Next == DoRegister \/ DoSort \/ DoAddRoutes

Spec == Init /\ [][Next]_vars

----------------------------------------------------------------------------
(* One router instance set up and serving requests                         *)

RouterOptions == {[errorHandler |-> FALSE], [errorHandler |-> TRUE]}

ServeRegisterInputs == {[k \in {"a"} |-> "f1"]}
ServeRoutes ==
    {RouteOf(<< <<"a", "v2">> >>, << <<"middlewares", <<"m2", "m1">> >> >>,
             HandlerPart),
     RouteOf(<< <<"a", "v2">> >>, << >>, << >>)}
ServeRouteLists == {<<route>> : route \in ServeRoutes}

InitServe == \E options \in RouterOptions : Constructor(options)

ServeRegister ==
    \E m \in ServeRegisterInputs : RegisterMiddlewares(m) /\ UNCHANGED restVars
ServeAddRoutes ==
    \E l \in ServeRouteLists : AddRoutes(l) /\ UNCHANGED restVars
ServeDispatch ==
    \E layer \in 1..Len(routerStack) : Dispatch(layer) /\ UNCHANGED restVars
ServeMiddleware ==
    \E r \in 1..Len(requests) : MiddlewareNext(r) /\ UNCHANGED restVars
ServeFinal ==
    \E r \in 1..Len(requests) :
      \E handler \in HandlerBehaviours, behaviour \in ErrorHandlerBehaviours :
        InvokeFinal(r, handler, behaviour) /\ UNCHANGED restVars
ServeHandlerSettles ==
    \E r \in 1..Len(requests) :
      \E result \in PromiseResults, behaviour \in ErrorHandlerBehaviours :
        HandlerSettles(r, result, behaviour) /\ UNCHANGED restVars

ServeErrorHandlerCompletes ==
    \E r \in 1..Len(requests) : ErrorHandlerCompletes(r) /\ UNCHANGED restVars

NextServe ==
    \/ ServeRegister \/ ServeAddRoutes
    \/ ServeDispatch \/ ServeMiddleware \/ ServeFinal \/ ServeHandlerSettles
    \/ ServeErrorHandlerCompletes

SpecServe == InitServe /\ [][NextServe]_vars

----------------------------------------------------------------------------
(* One router instance with use() middlewares, set up and serving          *)

UseRegisterInputs == {[k \in {"1", "a"} |-> IF k = "a" THEN "f1" ELSE "f2"]}
UseSortInputs == {[given |-> TRUE, keys |-> <<"a", "1">>]}

\* a route with a handler and one without, at different urls
UseRoutes ==
    {RouteOf(<< <<"a", "v2">>, <<"1", "v1">> >>,
             << <<"middlewares", <<"m2", "m1">> >> >>, HandlerPart),
     << <<"url", "/y">>, <<"method", "GET">>, <<"a", "v3">>,
        <<"middlewares", <<"m1">> >> >>}
UseRouteLists == {<<route>> : route \in UseRoutes}

\* handlers that return or throw, and an errorHandler that returns
UseHandlerBehaviours ==
    {[how |-> "returned", error |-> NoError], [how |-> "threw", error |-> "e1"]}

InitUse == Constructor([errorHandler |-> TRUE])

UseRegister ==
    \E m \in UseRegisterInputs : RegisterMiddlewares(m) /\ UNCHANGED restVars
UseSort ==
    \E c \in UseSortInputs : SortMiddlewares(c) /\ UNCHANGED restVars
UseAddRoutes ==
    \E l \in UseRouteLists :
      /\ \A i \in 1..Len(routerStack) : routerStack[i].path # Get(l[1], "url")
      /\ AddRoutes(l)
      /\ UNCHANGED restVars
UseUse ==
    \E n \in 1..2 :
      /\ Len(useStack) + n <= Len(UseMiddlewares)
      /\ Use(SubSeq(UseMiddlewares, Len(useStack) + 1, Len(useStack) + n))
      /\ UNCHANGED <<callLog, manyVars, loggerVars, frames>>
UseDispatch ==
    \E layer \in 1..Len(routerStack) :
      /\ \A r \in 1..Len(requests) : requests[r].layer # layer
      /\ Dispatch(layer)
      /\ executed' = Append(executed, << >>)
      /\ UNCHANGED <<callLog, prefix, useStack, manyVars, loggerVars, frames>>
UseRunsUse ==
    \E r \in 1..Len(requests) :
      UseMiddlewareRuns(r) /\ UNCHANGED <<callLog, manyVars,
                                          loggerVars, frames>>
UseRunsMiddleware ==
    \E r \in 1..Len(requests) :
      /\ requests[r].pc = "chain"
      /\ NextStep(r) = StepOf(requests[r])
      /\ MiddlewareNext(r)
      /\ Ran(r, NextStep(r))
      /\ UNCHANGED <<callLog, prefix, useStack, manyVars, loggerVars, frames>>
UseRunsFinal ==
    \E r \in 1..Len(requests) :
      \E handler \in UseHandlerBehaviours :
        /\ requests[r].pc = "chain"
        /\ NextStep(r) = StepOf(requests[r])
        /\ InvokeFinal(r, handler, "returned")
        /\ Ran(r, NextStep(r))
        /\ UNCHANGED <<callLog, prefix, useStack, manyVars,
                       loggerVars, frames>>

NextUse ==
    \/ UseRegister \/ UseSort \/ UseAddRoutes \/ UseUse
    \/ UseDispatch \/ UseRunsUse \/ UseRunsMiddleware \/ UseRunsFinal

SpecUse == InitUse /\ [][NextUse]_vars

----------------------------------------------------------------------------
(* Middlewares that throw                                                  *)

\* what a middleware throws: a value a handler throws as well, and another
MiddlewareErrors == {"e1", "e4"}

\* the request ends with the error a step of its chain threw
Rejects(r, error) ==
    requests' = [requests EXCEPT ![r].pc = "settled",
                                 ![r].outcome = "rejected",
                                 ![r].error = error]

\* as MiddlewareThrows, the middlewares of a route wrapped as its handler is
MiddlewareThrows_Wrapped(r, error) ==
    /\ r \in 1..Len(requests)
    /\ requests[r].pc = "chain"
    /\ StepOf(requests[r]).kind # "final"
    /\ requests' = [requests EXCEPT ![r].pc = "settled",
                                    ![r].outcome = "fulfilled"]
    /\ errorHandlerCalls' =
         IF errorHandler
         THEN Append(errorHandlerCalls,
                     [error |-> error, ctx |-> requests[r].ctx,
                      result |-> "returned"])
         ELSE errorHandlerCalls
    /\ UNCHANGED setupVars

\* a registry-resolved or route-local middleware throws before it calls
\* next(): addRoutes hands these to the external router as they are
MiddlewareThrows(r, error) ==
    /\ r \in 1..Len(requests)
    /\ requests[r].pc = "chain"
    /\ StepOf(requests[r]).kind # "final"
    /\ Rejects(r, error)
    /\ UNCHANGED <<setupVars, errorHandlerCalls>>

\* a use() middleware throws before it calls next()
UseMiddlewareThrows(r, error) ==
    /\ r \in 1..Len(requests)
    /\ requests[r].pc = "chain"
    /\ NextStep(r).kind = "use"
    /\ Rejects(r, error)
    /\ Ran(r, NextStep(r))
    /\ UNCHANGED <<setupVars, errorHandlerCalls, prefix, useStack>>

----------------------------------------------------------------------------
(* One router instance with errorHandler whose middlewares may throw       *)

FailRegisterInputs == {[k \in {"a"} |-> "f1"]}
FailRoutes ==
    {RouteOf(<< <<"a", "v2">> >>, << <<"middlewares", <<"m1">> >> >>,
             HandlerPart)}
FailRouteLists == {<<route>> : route \in FailRoutes}

FailRegister ==
    \E m \in FailRegisterInputs : RegisterMiddlewares(m) /\ UNCHANGED restVars
FailAddRoutes ==
    \E l \in FailRouteLists : AddRoutes(l) /\ UNCHANGED restVars
FailUse ==
    /\ Len(useStack) < 2
    /\ Use(<<UseMiddlewares[Len(useStack) + 1]>>)
    /\ UNCHANGED <<callLog, manyVars, loggerVars, frames>>
FailDispatch ==
    \E layer \in 1..Len(routerStack) :
      /\ Dispatch(layer)
      /\ executed' = Append(executed, << >>)
      /\ UNCHANGED <<callLog, prefix, useStack, manyVars, loggerVars, frames>>
FailUseThrows ==
    \E r \in 1..Len(requests), error \in MiddlewareErrors :
      UseMiddlewareThrows(r, error) /\ UNCHANGED <<callLog, manyVars,
                                                   loggerVars, frames>>
FailMiddlewareThrows ==
    \E r \in 1..Len(requests), error \in MiddlewareErrors :
      /\ requests[r].pc = "chain"
      /\ NextStep(r) = StepOf(requests[r])
      /\ MiddlewareThrows(r, error)
      /\ Ran(r, NextStep(r))
      /\ UNCHANGED <<callLog, prefix, useStack, manyVars, loggerVars, frames>>

NextFail ==
    \/ FailRegister \/ FailAddRoutes \/ FailUse \/ FailDispatch
    \/ UseRunsUse \/ UseRunsMiddleware \/ UseRunsFinal
    \/ FailUseThrows \/ FailMiddlewareThrows

SpecFail == InitUse /\ [][NextFail]_vars

----------------------------------------------------------------------------
(* requestLogger, the middleware installed by the logger option            *)

\* a value used as a condition: undefined and the empty string are falsy
Truthy(value) == value \notin {Undefined, ""}

\* log(content, isError): one line given to console.log
Log(arrow, context, isError) ==
    [level |-> IF isError THEN "ERROR" ELSE "DEBUG", arrow |-> arrow,
     ctx |-> context]

Pending == [how |-> "pending", error |-> NoError]

\* requestLogger(ctx, next): onStarted() runs up to its
\* `await getRequestBodyParams()` and is left there; then next() starts the
\* chain of the matched layer, and .catch and .then are attached to it
RequestLogger(layer) ==
    /\ enableLogger
    /\ Dispatch(layer)
    /\ logging' = Append(logging,
                         [ctx |-> Len(requests) + 1, onStarted |-> "awaiting",
                          errorInstance |-> Undefined, result |-> Pending])
    /\ UNCHANGED <<enableLogger, logs>>

\* the request emits "end" (or "error"): the promise of
\* getRequestBodyParams resolves, onStarted resumes and logs the start line
OnStarted(r) ==
    /\ r \in 1..Len(logging)
    /\ logging[r].onStarted = "awaiting"
    /\ logging' = [logging EXCEPT ![r].onStarted = "logged"]
    /\ logs' = Append(logs, Log("-->", logging[r].ctx, FALSE))
    /\ UNCHANGED <<setupVars, servingVars, enableLogger>>

\* next() has settled: .catch records the error in errorInstance, .then
\* calls onFinished(), which logs the finish line, and throws errorInstance
\* again `if (errorInstance)`
OnFinished(r) ==
    /\ r \in 1..Len(logging)
    /\ logging[r].result = Pending
    /\ requests[r].pc = "settled"
    /\ LET errorInstance == IF requests[r].outcome = "rejected"
                            THEN requests[r].error ELSE Undefined
       IN  /\ logging' =
                [logging EXCEPT
                   ![r].errorInstance = errorInstance,
                   ![r].result =
                      IF Truthy(errorInstance)
                      THEN [how |-> "rejected", error |-> errorInstance]
                      ELSE [how |-> "resolved", error |-> NoError]]
           /\ logs' = Append(logs, Log("<--", logging[r].ctx,
                                       Truthy(errorInstance)))
    /\ UNCHANGED <<setupVars, servingVars, enableLogger>>

----------------------------------------------------------------------------
(* One router instance constructed with the logger option, serving         *)

LogOptions == {[errorHandler |-> FALSE, logger |-> l] : l \in BOOLEAN}

LogRoutes ==
    {RouteOf(<< >>, << <<"middlewares", <<"m1">> >> >>, HandlerPart)}
LogRouteLists == {<<route>> : route \in LogRoutes}

\* handlers that return, throw an Error, and throw the empty string
LogHandlerBehaviours ==
    {[how |-> "returned", error |-> NoError],
     [how |-> "threw", error |-> "e1"],
     [how |-> "threw", error |-> ""]}

InitLog == \E options \in LogOptions : Constructor(options)

LogAddRoutes ==
    \E l \in LogRouteLists : AddRoutes(l) /\ UNCHANGED restVars
LogDispatch ==
    \E layer \in 1..Len(routerStack) :
      ~enableLogger /\ Dispatch(layer) /\ UNCHANGED restVars
LogRequestLogger ==
    \E layer \in 1..Len(routerStack) :
      RequestLogger(layer) /\ UNCHANGED <<callLog, useVars, manyVars, frames>>
LogOnStarted ==
    \E r \in 1..Len(logging) :
      OnStarted(r) /\ UNCHANGED <<callLog, useVars, manyVars, frames>>
LogMiddleware ==
    \E r \in 1..Len(requests) : MiddlewareNext(r) /\ UNCHANGED restVars
LogFinal ==
    \E r \in 1..Len(requests) :
      \E handler \in LogHandlerBehaviours :
        InvokeFinal(r, handler, "returned") /\ UNCHANGED restVars
LogOnFinished ==
    \E r \in 1..Len(logging) :
      OnFinished(r) /\ UNCHANGED <<callLog, useVars, manyVars, frames>>

NextLog ==
    \/ LogAddRoutes \/ LogDispatch \/ LogRequestLogger \/ LogOnStarted
    \/ LogMiddleware \/ LogFinal \/ LogOnFinished

SpecLog == InitLog /\ [][NextLog]_vars

----------------------------------------------------------------------------
(* The steps of a chain, as each request goes through them                 *)

\* how far a started step has got: "running" until it calls next(),
\* "awaiting" while its `await next()` (for the last step, the promise of
\* createHandler) is pending, "resumed" once that await has returned, and
\* "done" when the promise of the step has settled

\* the router starts the first step of the chain of the matched layer
Enter(layer) ==
    /\ Dispatch(layer)
    /\ frames' = Append(frames, <<"running">>)
    /\ executed' = Append(executed, <<routerStack[layer].stack[1]>>)

\* a middleware calls `await next()`: it is suspended there and the next
\* step of the chain starts
CallsNext(r) ==
    /\ MiddlewareNext(r)
    /\ frames[r][requests[r].pos] = "running"
    /\ frames' =
         [frames EXCEPT ![r] =
            Append([@ EXCEPT ![requests[r].pos] = "awaiting"], "running")]
    /\ executed' =
         [executed EXCEPT ![r] =
            Append(@, routerStack[requests[r].layer].stack[requests[r].pos + 1])]

\* a middleware returns without calling next(): the steps after it do not
\* start
MiddlewareReturns(r) ==
    /\ r \in 1..Len(requests)
    /\ requests[r].pc = "chain"
    /\ StepOf(requests[r]).kind # "final"
    /\ requests' = [requests EXCEPT ![r].pc = "settled",
                                    ![r].outcome = "fulfilled"]
    /\ frames' = [frames EXCEPT ![r][requests[r].pos] = "done"]
    /\ UNCHANGED <<setupVars, errorHandlerCalls, executed>>

\* the last step returns the promise of createHandler, which is pending
\* while the promise of the handler is
RunsFinal(r, handler, behaviour) ==
    /\ InvokeFinal(r, handler, behaviour)
    /\ frames' =
         [frames EXCEPT ![r][requests[r].pos] =
            IF requests'[r].pc = "settled" THEN "done" ELSE "awaiting"]
    /\ UNCHANGED executed

HandlerDone(r, result, behaviour) ==
    /\ HandlerSettles(r, result, behaviour)
    /\ frames' = [frames EXCEPT ![r][requests[r].pos] = "done"]
    /\ UNCHANGED executed

\* the `await next()` of a middleware returns when the promise of the step
\* after it has settled
Resumes(r) ==
    /\ r \in 1..Len(frames)
    /\ \E i \in 1..(Len(frames[r]) - 1) :
         /\ frames[r][i] = "awaiting"
         /\ frames[r][i + 1] = "done"
         /\ frames' = [frames EXCEPT ![r][i] = "resumed"]
    /\ UNCHANGED <<setupVars, servingVars, executed>>

\* a middleware that has resumed runs to its end
Returns(r) ==
    /\ r \in 1..Len(frames)
    /\ \E i \in 1..Len(frames[r]) :
         /\ frames[r][i] = "resumed"
         /\ frames' = [frames EXCEPT ![r][i] = "done"]
    /\ UNCHANGED <<setupVars, servingVars, executed>>

----------------------------------------------------------------------------
(* One router instance serving several requests at a time                  *)

OnionRegisterInputs == {[k \in {"a"} |-> "f1"]}

\* two routes at different urls, one with a field a registered middleware
\* may resolve
OnionRoutes ==
    << RouteOf(<< <<"a", "v2">> >>, << <<"middlewares", <<"m1">> >> >>,
               HandlerPart),
       << <<"url", "/y">>, <<"method", "GET">>,
          <<"middlewares", <<"m2">> >>, <<"handler", "h2">> >> >>

OnionRegister ==
    \E m \in OnionRegisterInputs :
      /\ routerStack = << >>
      /\ ~MapHas(middlewaresStack, "a")
      /\ RegisterMiddlewares(m)
      /\ UNCHANGED restVars
OnionAddRoutes ==
    /\ routerStack = << >>
    /\ CompileRoutes(OnionRoutes)
    /\ UNCHANGED restVars
OnionEnter ==
    \E layer \in 1..Len(routerStack) :
      /\ Enter(layer)
      /\ UNCHANGED <<callLog, prefix, useStack, manyVars, loggerVars>>
OnionCallsNext ==
    \E r \in 1..Len(requests) :
      /\ CallsNext(r)
      /\ UNCHANGED <<callLog, prefix, useStack, manyVars, loggerVars>>
OnionMiddlewareReturns ==
    \E r \in 1..Len(requests) :
      /\ MiddlewareReturns(r)
      /\ UNCHANGED <<callLog, prefix, useStack, manyVars, loggerVars>>
OnionRunsFinal ==
    \E r \in 1..Len(requests) :
      \E handler \in HandlerBehaviours :
        /\ RunsFinal(r, handler, "returned")
        /\ UNCHANGED <<callLog, prefix, useStack, manyVars, loggerVars>>
OnionHandlerDone ==
    \E r \in 1..Len(requests) :
      \E result \in PromiseResults :
        /\ HandlerDone(r, result, "returned")
        /\ UNCHANGED <<callLog, prefix, useStack, manyVars, loggerVars>>
OnionResumes ==
    \E r \in 1..Len(requests) :
      /\ Resumes(r)
      /\ UNCHANGED <<callLog, prefix, useStack, manyVars, loggerVars>>
OnionReturns ==
    \E r \in 1..Len(requests) :
      /\ Returns(r)
      /\ UNCHANGED <<callLog, prefix, useStack, manyVars, loggerVars>>

NextOnion ==
    \/ OnionRegister \/ OnionAddRoutes \/ OnionEnter \/ OnionCallsNext
    \/ OnionMiddlewareReturns \/ OnionRunsFinal \/ OnionHandlerDone
    \/ OnionResumes \/ OnionReturns

SpecOnion == InitServe /\ [][NextOnion]_vars

----------------------------------------------------------------------------
(* One router instance set up, with the calls made kept in a log           *)

ApiRegisterInputs ==
    {[k \in {"a"} |-> "f1"], [k \in {"a"} |-> "f2"], [k \in {"1"} |-> "f1"],
     [k \in {"1", "a"} |-> IF k = "a" THEN "f2" ELSE "f1"]}

ApiSortInputs ==
    {[given |-> FALSE, keys |-> << >>]}
    \cup {[given |-> TRUE, keys |-> l] :
            l \in {<<"a">>, <<"1">>, <<"a", "1">>, <<"1", "a">>,
                   <<"a", "a", "1">>}}

ApiRouteLists ==
    {<< RouteOf(<< <<"a", "v2">>, <<"1", "v1">> >>, << >>, HandlerPart) >>}

Logged(op, middlewares, keys, routes) ==
    /\ Len(callLog) < MaxCalls
    /\ callLog' = Append(callLog, [op |-> op, middlewares |-> middlewares,
                                   keys |-> keys, routes |-> routes])

ApiRegister ==
    \E m \in ApiRegisterInputs :
      /\ RegisterMiddlewares(m)
      /\ Logged("registerMiddlewares", m, << >>, << >>)
      /\ UNCHANGED <<useVars, manyVars, loggerVars, frames>>
ApiSort ==
    \E c \in ApiSortInputs :
      /\ SortMiddlewares(c)
      /\ Logged("sortMiddlewares", EmptyMap, c.keys, << >>)
      /\ UNCHANGED <<useVars, manyVars, loggerVars, frames>>
ApiAddRoutes ==
    \E l \in ApiRouteLists :
      /\ AddRoutes(l)
      /\ Logged("addRoutes", EmptyMap, << >>, l)
      /\ UNCHANGED <<useVars, manyVars, loggerVars, frames>>

NextApi == ApiRegister \/ ApiSort \/ ApiAddRoutes

SpecApi == Init /\ [][NextApi]_vars

----------------------------------------------------------------------------
(* One router instance given lists of several routes                       *)

ListRegisterInputs ==
    {[k \in {"a"} |-> "f1"],
     [k \in {"1", "a"} |-> IF k = "a" THEN "f1" ELSE "f2"]}
ListSortInputs ==
    {[given |-> TRUE, keys |-> <<"a", "1">>], [given |-> TRUE, keys |-> <<"1">>]}

\* three routes at three urls: without method, with method POST, and with
\* method GET and neither middlewares nor handler
ListRoutes ==
    << << <<"url", "/x">>, <<"a", "v2">>, <<"1", "v1">>, <<"handler", "h1">> >>,
       << <<"url", "/y">>, <<"method", "POST">>, <<"1", "v3">>,
          <<"middlewares", <<"m1">> >>, <<"handler", "h2">> >>,
       << <<"url", "/z">>, <<"method", "GET">> >> >>

ListRouteLists ==
    {<< >>, <<ListRoutes[3]>>, <<ListRoutes[1], ListRoutes[2]>>,
     <<ListRoutes[2], ListRoutes[1]>>,
     <<ListRoutes[2], ListRoutes[3], ListRoutes[1]>>}

ListRegister ==
    \E m \in ListRegisterInputs :
      /\ RegisterMiddlewares(m)
      /\ Logged("registerMiddlewares", m, << >>, << >>)
      /\ UNCHANGED <<useVars, manyVars, loggerVars, frames>>
ListSort ==
    \E c \in ListSortInputs :
      /\ SortMiddlewares(c)
      /\ Logged("sortMiddlewares", EmptyMap, c.keys, << >>)
      /\ UNCHANGED <<useVars, manyVars, loggerVars, frames>>
\* each url is registered once
ListAddRoutes ==
    \E l \in ListRouteLists :
      /\ \A i \in 1..Len(routerStack), j \in 1..Len(l) :
           routerStack[i].path # Get(l[j], "url")
      /\ CompileRoutes(l)
      /\ Logged("addRoutes", EmptyMap, << >>, l)
      /\ UNCHANGED <<useVars, manyVars, loggerVars, frames>>

NextList == ListRegister \/ ListSort \/ ListAddRoutes

SpecList == Init /\ [][NextList]_vars

----------------------------------------------------------------------------
(* The methods on the second router instance                               *)

\* as InstanceRegister, a name already registered keeping its factory
InstanceRegister_KeepFirst(inst, middlewares) ==
    [inst EXCEPT !.middlewaresStack = MapSetAll_KeepFirst(@, middlewares)]

InstanceRegister(inst, middlewares) ==
    [inst EXCEPT !.middlewaresStack = MapSetAll(@, middlewares)]

\* as InstanceSort, a key that is not registered yet not declared
InstanceSort_OnlyRegistered(inst, keys) ==
    LET Registered(key) == MapHas(inst.middlewaresStack, key)
    IN  [inst EXCEPT !.middlewaresKeys = AddKeys(@, SelectSeq(keys, Registered))]

InstanceSort(inst, keys) ==
    [inst EXCEPT !.middlewaresKeys = AddKeys(@, keys)]

InstanceAddRoutes(inst, routesList) ==
    LET Compile(route) ==
          Layer(route, inst.middlewaresKeys, inst.middlewaresStack)
        Calls(route) ==
          CallsOf(route, inst.middlewaresKeys, inst.middlewaresStack)
    IN  [inst EXCEPT !.routerStack = Concat(@, Map(routesList, Compile)),
                     !.factoryCalls = Concat(@, Map(routesList, Calls))]

InstanceUse(inst, middleware) ==
    [inst EXCEPT !.useStack =
       Concat(@, [i \in 1..Len(middleware) |->
                    [name |-> middleware[i], at |-> Len(inst.routerStack)]])]

\* the second instance given a call that the first was given
InstanceCall(inst, call) ==
    IF call.op = "registerMiddlewares"
    THEN InstanceRegister(inst, call.middlewares)
    ELSE IF call.op = "sortMiddlewares" THEN InstanceSort(inst, call.keys)
    ELSE InstanceAddRoutes(inst, call.routes)

----------------------------------------------------------------------------
(* Two router instances given the same calls                               *)

TwoRegisterInputs ==
    {[k \in {"1", "a"} |-> "f1"], [k \in {"a"} |-> "f2"]}
TwoSortInputs ==
    {[given |-> TRUE, keys |-> <<"a">>], [given |-> TRUE, keys |-> <<"1", "a">>]}
TwoRouteLists == ApiRouteLists

TwoRegister ==
    \E m \in TwoRegisterInputs :
      /\ RegisterMiddlewares(m)
      /\ Logged("registerMiddlewares", m, << >>, << >>)
      /\ UNCHANGED <<useVars, manyVars, loggerVars, frames>>
TwoSort ==
    \E c \in TwoSortInputs :
      /\ SortMiddlewares(c)
      /\ Logged("sortMiddlewares", EmptyMap, c.keys, << >>)
      /\ UNCHANGED <<useVars, manyVars, loggerVars, frames>>
TwoAddRoutes ==
    \E l \in TwoRouteLists :
      /\ AddRoutes(l)
      /\ Logged("addRoutes", EmptyMap, << >>, l)
      /\ UNCHANGED <<useVars, manyVars, loggerVars, frames>>

\* the second instance is given one of the calls the first was given: the
\* sortMiddlewares calls in the order the first had them, addRoutes once it
\* was given exactly the calls the first had before its addRoutes, and the
\* registerMiddlewares calls whenever
TwoReplay ==
    \E n \in (1..Len(callLog)) \ other.applied :
      LET call == callLog[n]
          earlier == {m \in 1..(n - 1) : callLog[m].op = call.op}
      IN  /\ call.op = "sortMiddlewares" => earlier \subseteq other.applied
          /\ call.op = "addRoutes" => other.applied = 1..(n - 1)
          /\ other' =
               [InstanceCall(other, call) EXCEPT
                  !.applied = @ \cup {n},
                  !.sameOrder = @ /\ other.applied = 1..(n - 1),
                  !.registerOrder =
                    @ /\ (call.op = "registerMiddlewares"
                            => \A m \in other.applied :
                                 callLog[m].op = call.op => m < n)]
          /\ UNCHANGED <<setupVars, servingVars, callLog, useVars, responses,
                         loggerVars, frames>>

NextTwo == TwoRegister \/ TwoSort \/ TwoAddRoutes \/ TwoReplay

SpecTwo == Init /\ [][NextTwo]_vars

----------------------------------------------------------------------------
(* Two router instances with prefixes, mounted in one application          *)

ManyRegisterInputs == {[k \in {"a"} |-> "f1"]}
ManySortInputs == {[given |-> TRUE, keys |-> <<"a">>]}

\* the route GET / of each router, with a handler of its own
ManyRoute(handler) ==
    << <<"url", "/">>, <<"method", "GET">>, <<"a", "v2">>,
       <<"handler", handler>> >>

\* the paths requested
ManyPaths == {"/one/", "/two/", "/"}

InitMany == Constructor([errorHandler |-> FALSE, prefix |-> "/one"])

ManyRegister ==
    \E m \in ManyRegisterInputs : RegisterMiddlewares(m) /\ UNCHANGED restVars
ManySort ==
    \E c \in ManySortInputs : SortMiddlewares(c) /\ UNCHANGED restVars
ManyUse ==
    /\ useStack = << >>
    /\ Use(<<UseMiddlewares[1]>>)
    /\ UNCHANGED <<callLog, manyVars, loggerVars, frames>>
ManyAddRoutes ==
    /\ routerStack = << >>
    /\ CompileRoutes(<<ManyRoute("h1")>>)
    /\ UNCHANGED restVars

\* as OtherRegister, the registry held in one place for all instances
OtherRegister_SharedRegistry(middlewares) ==
    /\ other' = InstanceRegister(other, middlewares)
    /\ middlewaresStack' = MapSetAll(middlewaresStack, middlewares)
    /\ UNCHANGED <<errorHandler, middlewaresKeys, routerStack, factoryCalls>>
    /\ UNCHANGED <<servingVars, callLog, useVars, responses,
                   loggerVars, frames>>

\* the methods called on the second instance
OtherRegister(middlewares) ==
    /\ other' = InstanceRegister(other, middlewares)
    /\ UNCHANGED <<setupVars, servingVars, callLog, useVars, responses,
                   loggerVars, frames>>
OtherSort(call) ==
    /\ other' = InstanceSort(other, IF call.given THEN call.keys ELSE << >>)
    /\ UNCHANGED <<setupVars, servingVars, callLog, useVars, responses,
                   loggerVars, frames>>
OtherUse(middleware) ==
    /\ other' = InstanceUse(other, middleware)
    /\ UNCHANGED <<setupVars, servingVars, callLog, useVars, responses,
                   loggerVars, frames>>
OtherAddRoutes(routesList) ==
    /\ other' = InstanceAddRoutes(other, routesList)
    /\ UNCHANGED <<setupVars, servingVars, callLog, useVars, responses,
                   loggerVars, frames>>

ManyOtherRegister ==
    \E m \in {[k \in {"a"} |-> "f2"]} : OtherRegister(m)
ManyOtherSort ==
    \E c \in ManySortInputs :
      other.middlewaresKeys = << >> /\ OtherSort(c)
ManyOtherUse ==
    other.useStack = << >> /\ OtherUse(<<UseMiddlewares[2]>>)
ManyOtherAddRoutes ==
    other.routerStack = << >> /\ OtherAddRoutes(<<ManyRoute("h2")>>)

\* the layers of a router constructed with a prefix that match a path
Handles(pfx, layers, path) ==
    {i \in 1..Len(layers) : pfx \o layers[i].path = path}

\* app.use(oneRouter.routes()).use(twoRouter.routes()): a request goes to
\* the first router and, when no route of it matches, on to the second; the
\* handler of the matched route writes the response
ManyRequest(path) ==
    LET one == Handles(prefix, routerStack, path)
        two == Handles(other.prefix, other.routerStack, path)
        First(S) == CHOOSE i \in S : \A j \in S : i <= j
    IN  /\ Len(responses) < MaxRequests
        /\ responses' =
             Append(responses,
                    IF one # {}
                    THEN [path |-> path, router |-> prefix,
                          ran |-> <<Get(routerStack[First(one)].route,
                                        "handler")>>]
                    ELSE IF two # {}
                    THEN [path |-> path, router |-> other.prefix,
                          ran |-> <<Get(other.routerStack[First(two)].route,
                                        "handler")>>]
                    ELSE [path |-> path, router |-> Undefined, ran |-> << >>])
        /\ UNCHANGED <<setupVars, servingVars, callLog, useVars, other,
                       loggerVars, frames>>

ManyServe == \E path \in ManyPaths : ManyRequest(path)

NextMany ==
    \/ ManyRegister \/ ManySort \/ ManyUse \/ ManyAddRoutes
    \/ ManyOtherRegister \/ ManyOtherSort \/ ManyOtherUse
    \/ ManyOtherAddRoutes \/ ManyServe

SpecMany == InitMany /\ [][NextMany]_vars

----------------------------------------------------------------------------
(* What the properties observe                                             *)

Names(steps) == [i \in 1..Len(steps) |-> steps[i].name]

ResolvedSteps(chain) ==
    LET IsRegistry(step) == step.kind = "registry"
    IN  SelectSeq(chain, IsRegistry)

ResolvedNames(layer) == Names(ResolvedSteps(layer.stack))

\* the extra fields of a route, in enumeration order
ExtraFields(route) ==
    LET IsExtra(key) == key \notin ReservedNames
    IN  SelectSeq(ObjectKeys(route), IsExtra)

LocalsOf(route) ==
    IF HasOwn(route, "middlewares") THEN Get(route, "middlewares") ELSE << >>

\* the object without field k, the sequence without element k
WithoutField(o, k) == LET Keep(pair) == pair[1] # k IN SelectSeq(o, Keep)
WithoutKey(s, k) == LET Keep(x) == x # k IN SelectSeq(s, Keep)

\* the layers an addRoutes step adds
Compiled == (Len(routerStack) + 1)..Len(routerStack')

----------------------------------------------------------------------------
(* Compilation of a route                                                  *)

\* C1: when every extra field of a route names a registered middleware, the
\* registry-resolved middlewares of its chain are the declared keys that are
\* fields of the route, in declared order, if an order is declared, and the
\* extra fields in enumeration order if none is.
C1_ResolvedOrder ==
    [][\A i \in Compiled :
         LET route == routerStack'[i].route
             S == ExtraFields(route)
             InS(key) == Includes(S, key)
         IN  Range(S) \subseteq DOMAIN middlewaresStack =>
               ResolvedNames(routerStack'[i]) =
                 IF middlewaresKeys # << >>
                 THEN SelectSeq(middlewaresKeys, InS)
                 ELSE S]_vars

\* a route enumerated "1", "a" was compiled to the declared order "a", "1"
C1_Witness ==
    /\ Len(middlewaresKeys) >= 2
    /\ SubSeq(middlewaresKeys, 1, 2) = <<"a", "1">>
    /\ \E i \in 1..Len(routerStack) :
         /\ ExtraFields(routerStack[i].route) = <<"1", "a">>
         /\ ResolvedNames(routerStack[i]) = <<"a", "1">>

\* C2: the chain of every route is its registry-resolved middlewares, then
\* all the route's own middlewares in their declared order, then the handler
\* step, whatever the declared order.
C2_RouteLocalLast ==
    \A i \in 1..Len(routerStack) :
      LET chain == routerStack[i].stack
          locals == LocalsOf(routerStack[i].route)
          r == Len(ResolvedSteps(chain))
      IN  /\ Len(chain) = r + Len(locals) + 1
          /\ \A j \in 1..r : chain[j].kind = "registry"
          /\ \A j \in 1..Len(locals) :
               chain[r + j] = LocalMiddleware(locals[j])
          /\ chain[Len(chain)] = FinalStep

\* a chain with two resolved middlewares in declared order and two local ones
C2_Witness ==
    \E i \in 1..Len(routerStack) :
      /\ ResolvedNames(routerStack[i]) = <<"a", "1">>
      /\ LocalsOf(routerStack[i].route) = <<"m2", "m1">>
      /\ Len(routerStack[i].stack) = 5

\* C3: no chain holds a middleware resolved from the registry under one of
\* the four reserved names, and no factory registered under such a name is
\* invoked, also when such names are registered and declared.
C3_ReservedNeverResolved ==
    \A i \in 1..Len(routerStack) :
      /\ Range(ResolvedNames(routerStack[i])) \cap ReservedNames = {}
      /\ Range(Names(factoryCalls[i])) \cap ReservedNames = {}

\* the reserved names are registered and declared, and a route with a
\* handler and a resolved middleware is compiled
C3_Witness ==
    /\ ReservedNames \subseteq DOMAIN middlewaresStack
    /\ ReservedNames \subseteq Range(middlewaresKeys)
    /\ \E i \in 1..Len(routerStack) :
         /\ HasOwn(routerStack[i].route, "handler")
         /\ ResolvedNames(routerStack[i]) = <<"a">>

\* C6: with a declared order that is not empty, a route compiled leaves out
\* every registered middleware it has a field for that the order does not
\* name (not in the chain, factory not invoked), and the same route compiled
\* with no declared order has it.
C6_UndeclaredDropped ==
    [][\A i \in Compiled :
         LET route == routerStack'[i].route
             NoOrder == Layer(route, << >>, middlewaresStack)
         IN  middlewaresKeys # << >> =>
               \A key \in Range(ExtraFields(route)) \cap DOMAIN middlewaresStack :
                 ~Includes(middlewaresKeys, key) =>
                   /\ key \notin Range(ResolvedNames(routerStack'[i]))
                   /\ key \notin Range(Names(factoryCalls'[i]))
                   /\ key \in Range(ResolvedNames(NoOrder))]_vars

\* "a" and "1" are registered, only "1" is declared, and a route with both
\* fields has "1" alone
C6_Witness ==
    /\ {"1", "a"} \subseteq DOMAIN middlewaresStack
    /\ middlewaresKeys = <<"1">>
    /\ \E i \in 1..Len(routerStack) :
         /\ ExtraFields(routerStack[i].route) = <<"1", "a">>
         /\ ResolvedNames(routerStack[i]) = <<"1">>

\* C7: a middleware whose name is not a field of a route is not in the
\* route's chain and its factory is not invoked for the route, registered
\* and declared or not.
C7_OnlyUsedLoaded ==
    \A i \in 1..Len(routerStack) :
      \A key \in ExtraNames \cup ReservedNames :
        ~HasOwn(routerStack[i].route, key) =>
          /\ key \notin Range(ResolvedNames(routerStack[i]))
          /\ key \notin Range(Names(factoryCalls[i]))

\* "1" is registered and declared, and a route without that field has "a"
C7_Witness ==
    /\ "1" \in DOMAIN middlewaresStack
    /\ Includes(middlewaresKeys, "1")
    /\ Includes(middlewaresKeys, "a")
    /\ \E i \in 1..Len(routerStack) :
         /\ ~HasOwn(routerStack[i].route, "1")
         /\ ResolvedNames(routerStack[i]) = <<"a">>

\* no factory is looked up that the registry does not hold (calling the
\* undefined result would throw), and none is invoked for the name
NeverInstantiated(i, name) ==
    /\ \A j \in 1..Len(factoryCalls'[i]) : factoryCalls'[i][j].fn # Undefined
    /\ name \notin Range(Names(factoryCalls'[i]))

SameAsWithoutField(i, name) ==
    routerStack'[i].stack =
      Layer(WithoutField(routerStack'[i].route, name), middlewaresKeys,
            middlewaresStack).stack

SameAsWithoutKey(i, name) ==
    routerStack'[i].stack =
      Layer(routerStack'[i].route, WithoutKey(middlewaresKeys, name),
            middlewaresStack).stack

\* C8 as stated: a name that is not registered, as a field of a route or as
\* a declared key, has no factory invoked, and the chain of a route is what
\* it would be without that field and what it would be without that key.
C8_UnregisteredInert ==
    [][\A i \in Compiled :
         \A name \in ExtraNames \ DOMAIN middlewaresStack :
           /\ NeverInstantiated(i, name)
           /\ SameAsWithoutField(i, name)
           /\ SameAsWithoutKey(i, name)]_vars

\* C8 as amended: the chain is what it would be without the declared key
\* when the declared order without that key is still not empty (or the key
\* is not declared); a declared key that is not registered still makes the
\* order non-empty.
C8_UnregisteredInertUnlessOnlyKeys ==
    [][\A i \in Compiled :
         \A name \in ExtraNames \ DOMAIN middlewaresStack :
           /\ NeverInstantiated(i, name)
           /\ SameAsWithoutField(i, name)
           /\ (WithoutKey(middlewaresKeys, name) # << >>
               \/ middlewaresKeys = << >>) => SameAsWithoutKey(i, name)]_vars

\* "1" is declared and a field of a route but never registered, and the
\* route is compiled to "a" alone
C8_Witness ==
    /\ "1" \notin DOMAIN middlewaresStack
    /\ Includes(middlewaresKeys, "1")
    /\ Includes(middlewaresKeys, "a")
    /\ \E i \in 1..Len(routerStack) :
         /\ ExtraFields(routerStack[i].route) = <<"1", "a">>
         /\ ResolvedNames(routerStack[i]) = <<"a">>

----------------------------------------------------------------------------
(* The error boundary                                                      *)

CallsFor(context) ==
    LET Mine(call) == call.ctx = context
    IN  SelectSeq(errorHandlerCalls, Mine)

HandlerFailed(req) == req.pc = "settled" /\ Failed(req.handled)

\* errorHandler is invoked for a request once, with the error of its
\* handler, when the handler has failed, and not otherwise
CaughtOnce(req) ==
    IF HandlerFailed(req)
    THEN /\ Len(CallsFor(req.ctx)) = 1
         /\ CallsFor(req.ctx)[1].error = req.handled.error
    ELSE CallsFor(req.ctx) = << >>

Recovered(req) ==
    /\ req.outcome = "fulfilled"
    /\ req.error = NoError
    /\ req.body = <<"errorHandler", req.handled.error>>

C5_PropagatesUnmodified ==
    ~errorHandler =>
      /\ errorHandlerCalls = << >>
      /\ \A r \in 1..Len(requests) :
           HandlerFailed(requests[r]) =>
             /\ requests[r].outcome = "rejected"
             /\ requests[r].error = requests[r].handled.error

\* a handler threw "e1" and another rejected with "e2"; both propagate
C5_Witness ==
    /\ ~errorHandler
    /\ Len(requests) = 2
    /\ requests[1].handled = [how |-> "threw", error |-> "e1"]
    /\ requests[1].error = "e1"
    /\ requests[2].handled = [how |-> "rejected", error |-> "e2"]
    /\ requests[2].error = "e2"

----------------------------------------------------------------------------
(* The registry and the declared order over a history of calls             *)

Max(S) == CHOOSE x \in S : \A y \in S : y <= x

\* the factory of the most recent registerMiddlewares call of the log that
\* supplied the name
LatestFactory(log, name) ==
    LET supplied == {n \in 1..Len(log) :
                       /\ log[n].op = "registerMiddlewares"
                       /\ name \in DOMAIN log[n].middlewares}
    IN  IF supplied = {} THEN Undefined
        ELSE log[Max(supplied)].middlewares[name]

\* the position in the log of the call that compiled layer i (the lists of
\* SpecApi hold one route each)
CompiledAt(i) ==
    CHOOSE n \in 1..Len(callLog) :
      /\ callLog[n].op = "addRoutes"
      /\ Cardinality({m \in 1..n : callLog[m].op = "addRoutes"}) = i

\* C9: the registry holds for every name the factory of the most recent
\* registerMiddlewares call that supplied it (none if no call did), and a
\* route compiled after the calls instantiates each of its middlewares from
\* that factory.
C9_LatestFactoryWins ==
    /\ \A name \in ExtraNames \cup ReservedNames :
         MapGet(middlewaresStack, name) = LatestFactory(callLog, name)
    /\ \A i \in 1..Len(routerStack) :
         LET before == SubSeq(callLog, 1, CompiledAt(i) - 1)
             steps == ResolvedSteps(routerStack[i].stack)
         IN  \A j \in 1..Len(steps) :
               steps[j].fn = LatestFactory(before, steps[j].name)

\* "1" and "a" registered, "a" registered again with f1 in a call that
\* leaves "1" alone, a route compiled with the f1 middleware, and "a"
\* registered once more with f2
C9_Witness ==
    /\ Len(callLog) = 4
    /\ callLog[1].op = "registerMiddlewares"
    /\ callLog[1].middlewares =
         [k \in {"1", "a"} |-> IF k = "a" THEN "f2" ELSE "f1"]
    /\ callLog[2].op = "registerMiddlewares"
    /\ callLog[2].middlewares = [k \in {"a"} |-> "f1"]
    /\ callLog[3].op = "addRoutes"
    /\ callLog[4].op = "registerMiddlewares"
    /\ callLog[4].middlewares = [k \in {"a"} |-> "f2"]
    /\ middlewaresStack =
         [k \in {"1", "a"} |-> IF k = "a" THEN "f2" ELSE "f1"]
    /\ \E j \in 1..Len(routerStack[1].stack) :
         /\ routerStack[1].stack[j].name = "a"
         /\ routerStack[1].stack[j].fn = "f1"

\* every key passed to sortMiddlewares so far, in call order
RECURSIVE Declared(_)
Declared(log) ==
    IF log = << >> THEN << >>
    ELSE Declared(SubSeq(log, 1, Len(log) - 1))
         \o (IF log[Len(log)].op = "sortMiddlewares"
             THEN log[Len(log)].keys ELSE << >>)

\* the elements of s at the position of their first occurrence
FirstOccurrences(s) ==
    LET First(n) == \A m \in 1..(n - 1) : s[m] # s[n]
        F[n \in 0..Len(s)] ==
          IF n = 0 THEN << >>
          ELSE IF First(n) THEN Append(F[n - 1], s[n]) ELSE F[n - 1]
    IN  F[Len(s)]

\* C10: the declared order is the keys of all the sortMiddlewares calls so
\* far, each once, at the position of its first occurrence; repeating any
\* call made so far, or calling with no argument or an empty list, leaves
\* the order as it is.
C10_FirstOccurrenceOrder ==
    /\ middlewaresKeys = FirstOccurrences(Declared(callLog))
    /\ \A n \in 1..Len(callLog) :
         callLog[n].op = "sortMiddlewares" =>
           AddKeys(middlewaresKeys, callLog[n].keys) = middlewaresKeys
    /\ AddKeys(middlewaresKeys, << >>) = middlewaresKeys

\* "a", "a", "1" declared, then "1", "a", then no argument: the order stays
\* "a", "1"
C10_Witness ==
    /\ Len(callLog) >= 3
    /\ callLog[1].op = "sortMiddlewares" /\ callLog[1].keys = <<"a", "a", "1">>
    /\ callLog[2].op = "sortMiddlewares" /\ callLog[2].keys = <<"1", "a">>
    /\ callLog[3].op = "sortMiddlewares" /\ callLog[3].keys = << >>
    /\ middlewaresKeys = <<"a", "1">>

----------------------------------------------------------------------------
(* Compiled chains over later calls                                        *)

\* C11: every step leaves the layers compiled so far as they are (chain,
\* factory calls made), registerMiddlewares and sortMiddlewares steps
\* included; a layer an addRoutes step adds is compiled from the registry and
\* the declared order as they are at that step.
C11_CompiledChainsFixed ==
    [][/\ Len(routerStack') >= Len(routerStack)
       /\ \A i \in 1..Len(routerStack) :
            /\ routerStack'[i] = routerStack[i]
            /\ factoryCalls'[i] = factoryCalls[i]
       /\ \A i \in Compiled :
            routerStack'[i] =
              Layer(routerStack'[i].route, middlewaresKeys, middlewaresStack)
      ]_vars

\* a route compiled to "1"(f1), "a"(f2); then "a" registered again with f1 and
\* the order "a", "1" declared: the chain is as compiled, and compiling the
\* route now would give another
C11_Witness ==
    /\ Len(callLog) = 4
    /\ callLog[2].op = "addRoutes"
    /\ callLog[3].op = "registerMiddlewares"
    /\ callLog[3].middlewares = [k \in {"a"} |-> "f1"]
    /\ callLog[4].op = "sortMiddlewares"
    /\ callLog[4].keys = <<"a", "1">>
    /\ Len(routerStack) = 1
    /\ ResolvedNames(routerStack[1]) = <<"1", "a">>
    /\ ResolvedSteps(routerStack[1].stack)[2].fn = "f2"
    /\ Names(ResolvedSteps(Layer(routerStack[1].route, middlewaresKeys,
                                 middlewaresStack).stack)) = <<"a", "1">>

----------------------------------------------------------------------------
(* use() middlewares and the chain of a route                              *)

IsPrefix(s, t) ==
    /\ Len(s) <= Len(t)
    /\ \A j \in 1..Len(s) : s[j] = t[j]

\* how many use() middlewares were given before layer i was compiled
UsedBefore(i) == Cardinality({j \in 1..Len(useStack) : useStack[j].at < i})

BodyFromUse(i) ==
    IF UsedBefore(i) > 0 THEN <<"use", UseMiddlewares[1]>>
    ELSE <<"none", "none">>

\* C13: a route without a handler is compiled to its resolved middlewares,
\* its own middlewares and a last step; a request that has run that step
\* made no handler call and no errorHandler call, ended without an error, and
\* has the response the use() middlewares wrote.
C13_NoHandlerNoTerminalAction ==
    \A i \in 1..Len(routerStack) :
      ~HasOwn(routerStack[i].route, "handler") =>
        /\ Len(routerStack[i].stack) =
             Len(ResolvedSteps(routerStack[i].stack))
             + Len(LocalsOf(routerStack[i].route)) + 1
        /\ \A r \in 1..Len(requests) :
             requests[r].layer = i =>
               /\ requests[r].pc \in {"chain", "settled"}
               /\ requests[r].handlerCalls = 0
               /\ CallsFor(requests[r].ctx) = << >>
               /\ requests[r].pc = "settled" =>
                    /\ requests[r].outcome = "fulfilled"
                    /\ requests[r].error = NoError
                    /\ requests[r].body = BodyFromUse(i)
                    /\ executed[r][Len(executed[r])] = FinalStep

\* on an instance with errorHandler, a request to the route without handler
\* ran u1, the resolved middleware, the route's own and the last step, and
\* has the response u1 wrote
C13_Witness ==
    /\ errorHandler
    /\ \E r \in 1..Len(requests) :
         /\ ~HasOwn(routerStack[requests[r].layer].route, "handler")
         /\ requests[r].pc = "settled"
         /\ Names(executed[r]) = <<"u1", "a", "m1", Undefined>>
         /\ requests[r].body = <<"use", "u1">>

\* no name twice
Distinct(s) == \A j, k \in 1..Len(s) : s[j] = s[k] => j = k

\* C16: an addRoutes step makes, for each route it compiles, one factory
\* call per resolved key, to the factory registered under the key and with
\* the value of the route's field of that name, and the chain holds what the
\* calls returned, in order; no other step makes a factory call.
C16_FactoryCalledOnceWithOwnValue ==
    [][/\ \A i \in Compiled :
            LET route == routerStack'[i].route
                calls == factoryCalls'[i]
            IN  /\ calls = ResolvedSteps(routerStack'[i].stack)
                /\ Distinct(Names(calls))
                /\ \A j \in 1..Len(calls) :
                     /\ HasOwn(route, calls[j].name)
                     /\ calls[j].arg = Get(route, calls[j].name)
                     /\ calls[j].fn = middlewaresStack[calls[j].name]
       /\ Len(factoryCalls') = Len(routerStack')
       /\ Compiled = {} => factoryCalls' = factoryCalls]_vars

\* with no declared order, the route {a: v2, 1: v1} was compiled with the
\* calls f2(v1) and f1(v2), and a request to it has run its handler
C16_Witness ==
    /\ middlewaresKeys = << >>
    /\ \E i \in 1..Len(routerStack) :
         /\ factoryCalls[i] =
              << [kind |-> "registry", name |-> "1", fn |-> "f2",
                  arg |-> "v1"],
                 [kind |-> "registry", name |-> "a", fn |-> "f1",
                  arg |-> "v2"] >>
         /\ \E r \in 1..Len(requests) :
              /\ requests[r].layer = i
              /\ requests[r].handlerCalls = 1

----------------------------------------------------------------------------
(* What one addRoutes call registers                                       *)

\* the step is a call of addRoutes
IsAddRoutes ==
    /\ Len(callLog') = Len(callLog) + 1
    /\ callLog'[Len(callLog')].op = "addRoutes"

\* C18: a call of addRoutes adds to the external router one registration per
\* route of its list, in list order, under the method the route names (ALL
\* when it names none), at the route's url and with the route's chain; the
\* registrations made before, the registry, the declared order and
\* errorHandler are as before, and the routes registered are the routes
\* given.
C18_OneRegistrationPerRoute ==
    [][IsAddRoutes =>
         LET routesList == callLog'[Len(callLog')].routes
             n == Len(routerStack)
         IN  /\ Len(routerStack') = n + Len(routesList)
             /\ SubSeq(routerStack', 1, n) = routerStack
             /\ \A j \in 1..Len(routesList) :
                  LET route == routesList[j]
                      layer == routerStack'[n + j]
                  IN  /\ layer.method =
                           IF HasOwn(route, "method")
                           THEN REQUEST_METHODS[Get(route, "method")]
                           ELSE REQUEST_METHODS.ALL
                      /\ layer.path = Get(route, "url")
                      /\ layer.stack =
                           Append(RouteMiddlewares(route, middlewaresKeys,
                                                   middlewaresStack),
                                  FinalStep)
                      /\ layer.route = route
             /\ middlewaresStack' = middlewaresStack
             /\ middlewaresKeys' = middlewaresKeys
             /\ errorHandler' = errorHandler]_vars

\* after /z, one call with the routes /y (POST) and /x (no method): three
\* registrations, the last two for post /y and all /x, in that order
C18_Witness ==
    /\ Len(callLog) >= 2
    /\ callLog[Len(callLog)].op = "addRoutes"
    /\ callLog[Len(callLog)].routes = <<ListRoutes[2], ListRoutes[1]>>
    /\ middlewaresStack # EmptyMap
    /\ [i \in 1..Len(routerStack) |-> routerStack[i].method] =
         <<"get", "post", "all">>
    /\ [i \in 1..Len(routerStack) |-> routerStack[i].path] =
         <<"/z", "/y", "/x">>

----------------------------------------------------------------------------
(* One attempt per invocation                                              *)

Started(req) == req.pc \in {"running", "settled"}

\* C19: a request whose wrapped handler was invoked has had its handler
\* called once, and a request not there yet, or to a route without handler,
\* not at all; no step calls a handler already called, whatever its result;
\* a request that has settled stays settled, with the result and the outcome
\* it settled with.
C19_SingleAttempt ==
    [][\A r \in 1..Len(requests) :
         LET req == requests[r]
             after == requests'[r]
             wrapped == HasOwn(routerStack[req.layer].route, "handler")
         IN  /\ req.handlerCalls = IF Started(req) /\ wrapped THEN 1 ELSE 0
             /\ after.handlerCalls = IF Started(after) /\ wrapped THEN 1 ELSE 0
             /\ req.pc = "running" => after.pc \in {"running", "settled"}
             /\ req.pc = "settled" =>
                  /\ after.pc = "settled"
                  /\ after.handled = req.handled
                  /\ after.outcome = req.outcome
                  /\ after.error = req.error]_vars

\* with errorHandler, one handler threw and another returned a promise that
\* rejected: both settled, each called once
C19_Witness ==
    /\ errorHandler
    /\ Len(requests) = 2
    /\ requests[1].pc = "settled" /\ requests[1].handled.how = "threw"
    /\ requests[2].pc = "settled" /\ requests[2].handled.how = "rejected"
    /\ requests[1].handlerCalls = 1 /\ requests[2].handlerCalls = 1
    /\ Len(errorHandlerCalls) = 2

----------------------------------------------------------------------------
(* When the wrapped handler settles                                        *)

\* C20 as stated: with errorHandler, once the wrapped handler of a request
\* whose handler failed has settled normally, the response is the one
\* errorHandler writes.
C20_SettlesAfterErrorHandlerWrote ==
    errorHandler =>
      \A r \in 1..Len(requests) :
        (HandlerFailed(requests[r]) /\ requests[r].outcome = "fulfilled")
          => requests[r].body = <<"errorHandler", requests[r].handled.error>>

----------------------------------------------------------------------------
(* Two instances given the same calls                                      *)

\* the second instance has compiled the routes the first has, to the same
\* chains with the same factory calls
SameChains ==
    /\ Len(other.routerStack) <= Len(routerStack)
    /\ \A i \in 1..Len(other.routerStack) :
         /\ other.routerStack[i] = routerStack[i]
         /\ other.factoryCalls[i] = factoryCalls[i]

C17_SetupOrderIndependent == SameChains

\* C17 as amended: it has them when it was given the registerMiddlewares
\* calls in the order the first was given them, however they were placed
\* among the sortMiddlewares calls.
C17_SetupOrderIndependentOfSort ==
    other.registerOrder => SameChains

\* the first instance was given register, sort, sort and the second sort,
\* sort, register, before addRoutes: both have the chain "a", "1"
C17_Witness ==
    /\ Len(callLog) = 4
    /\ callLog[1].op = "registerMiddlewares"
    /\ callLog[2].op = "sortMiddlewares" /\ callLog[2].keys = <<"a">>
    /\ callLog[3].op = "sortMiddlewares" /\ callLog[3].keys = <<"1", "a">>
    /\ callLog[4].op = "addRoutes"
    /\ other.applied = 1..4
    /\ ~other.sameOrder
    /\ other.registerOrder
    /\ Len(other.routerStack) = 1
    /\ ResolvedNames(other.routerStack[1]) = <<"a", "1">>
    /\ ResolvedNames(routerStack[1]) = <<"a", "1">>

----------------------------------------------------------------------------
(* Isolation of router instances                                           *)

thisInstance ==
    <<errorHandler, middlewaresKeys, middlewaresStack, routerStack,
      factoryCalls, useStack, prefix>>

\* C15: no step changes the fields or the compiled chains of both instances:
\* a call on one leaves the registry, the declared order, errorHandler, the
\* use() middlewares and the layers of the other as they are; and a request
\* to a path under /one runs the handler of the first router only, a request
\* to a path under /two the handler of the second only.
C15_InstancesIsolated ==
    [][/\ other' = other \/ thisInstance' = thisInstance
       /\ \A n \in 1..Len(responses') :
            LET response == responses'[n]
            IN  /\ response.path = "/one/" =>
                     response.ran \in {<< >>, <<"h1">>}
                /\ response.path = "/two/" =>
                     response.ran \in {<< >>, <<"h2">>}
                /\ response.path = "/" => response.ran = << >>]_vars

\* both routers have registered "a" (with different factories) and GET /,
\* compiled to different chains; /one/ was answered by h1 and /two/ by h2
C15_Witness ==
    /\ Len(routerStack) = 1 /\ Len(other.routerStack) = 1
    /\ ResolvedNames(routerStack[1]) = <<"a">>
    /\ ResolvedNames(other.routerStack[1]) = <<"a">>
    /\ ResolvedSteps(routerStack[1].stack)[1].fn = "f1"
    /\ ResolvedSteps(other.routerStack[1].stack)[1].fn = "f2"
    /\ useStack # other.useStack
    /\ Len(responses) = 2
    /\ responses[1] = [path |-> "/one/", router |-> "/one", ran |-> <<"h1">>]
    /\ responses[2] = [path |-> "/two/", router |-> "/two", ran |-> <<"h2">>]

----------------------------------------------------------------------------
(* An errorHandler that throws                                             *)

\* C25: when errorHandler throws while handling the error of a handler, the
\* wrapped handler fails with the error errorHandler threw, not with the
\* error of the handler, and errorHandler has been invoked for that request
\* once only.
C25_ErrorHandlerThrowPropagates ==
    \A r \in 1..Len(requests) :
      \A n \in 1..Len(errorHandlerCalls) :
        (/\ errorHandlerCalls[n].ctx = requests[r].ctx
         /\ errorHandlerCalls[n].result = "threw")
          => /\ HandlerFailed(requests[r])
             /\ requests[r].outcome = "rejected"
             /\ requests[r].error = ErrorHandlerError
             /\ requests[r].error # requests[r].handled.error
             /\ Len(CallsFor(requests[r].ctx)) = 1

\* a handler threw "e1", errorHandler threw in turn, and the request ended
\* with the error of errorHandler; a later request was served as well
C25_Witness ==
    /\ errorHandler
    /\ Len(requests) = 2
    /\ requests[1].handled = [how |-> "threw", error |-> "e1"]
    /\ CallsFor(1) = << [error |-> "e1", ctx |-> 1, result |-> "threw"] >>
    /\ requests[1].outcome = "rejected"
    /\ requests[1].error = ErrorHandlerError
    /\ requests[2].pc = "settled"

----------------------------------------------------------------------------
(* What the error boundary covers                                          *)

LastRan(r) == executed[r][Len(executed[r])]

----------------------------------------------------------------------------
(* The request logger                                                      *)

FinishLines(context) ==
    LET Mine(line) == line.arrow = "<--" /\ line.ctx = context
    IN  SelectSeq(logs, Mine)

\* C23 as stated: the logger of a request logs one finish line, once the
\* chain after it has settled and not before; when that chain failed with a
\* value, whatever the value, the logger fails with the same value after
\* logging, and when the chain succeeded the logger succeeds.
C23_LoggerTransparent ==
    \A r \in 1..Len(logging) :
      LET done == logging[r].result # Pending IN
        /\ Len(FinishLines(logging[r].ctx)) = IF done THEN 1 ELSE 0
        /\ done => requests[r].pc = "settled"
        /\ (done /\ requests[r].outcome = "rejected") =>
              logging[r].result =
                [how |-> "rejected", error |-> requests[r].error]
        /\ (done /\ requests[r].outcome = "fulfilled") =>
              logging[r].result.how = "resolved"

\* C24 as stated: a finish line of a request comes after the start line of
\* that request in the log.
C24_StartBeforeFinish ==
    \A n \in 1..Len(logs) :
      logs[n].arrow = "<--" =>
        \E m \in 1..(n - 1) :
          logs[m].arrow = "-->" /\ logs[m].ctx = logs[n].ctx

----------------------------------------------------------------------------
(* Requests in flight at the same time                                     *)

Rank(phase) ==
    CASE phase = "running" -> 1
      [] phase = "awaiting" -> 2
      [] phase = "resumed" -> 3
      [] phase = "done" -> 4

\* one request, by itself: its steps have started in the order of its
\* chain, each once; every step but the innermost started has called its
\* continuation; at most one step is running; and a middleware that has
\* resumed has every later step done, the handler included
OrderKept(req, frame, ran) ==
    LET chain == routerStack[req.layer].stack IN
      /\ Len(frame) = Len(ran)
      /\ IsPrefix(ran, chain)
      /\ \A i \in 1..(Len(frame) - 1) : frame[i] # "running"
      /\ Cardinality({i \in 1..Len(frame) :
                        frame[i] \in {"running", "resumed"}}) <= 1
      /\ \A i \in 1..(Len(frame) - 1) :
           frame[i] \in {"resumed", "done"} =>
             /\ \A j \in (i + 1)..Len(frame) : frame[j] = "done"
             /\ Len(frame) = Len(chain) =>
                  /\ req.pc = "settled"
                  /\ req.handled.how # "pending"

\* C21: in every step, whatever the requests in flight: each request keeps
\* the order of its own chain (OrderKept); no step of a request starts
\* again or goes back, and a step starts only as the step before it calls
\* its continuation; and a step of one request leaves every other request as
\* it is.
C21_OnePassPerRequest ==
    [][/\ \A r \in 1..Len(frames') :
            OrderKept(requests'[r], frames'[r], executed'[r])
       /\ \A r \in 1..Len(frames) :
            /\ Len(frames'[r]) \in {Len(frames[r]), Len(frames[r]) + 1}
            /\ IsPrefix(executed[r], executed'[r])
            /\ \A i \in 1..Len(frames[r]) :
                 Rank(frames'[r][i]) >= Rank(frames[r][i])
            /\ Len(frames'[r]) > Len(frames[r]) =>
                 /\ frames[r][Len(frames[r])] = "running"
                 /\ frames'[r][Len(frames[r])] = "awaiting"
       /\ Cardinality({r \in 1..Len(frames) :
                         \/ requests'[r] # requests[r]
                         \/ frames'[r] # frames[r]
                         \/ executed'[r] # executed[r]}) <= 1
       /\ Len(frames') > Len(frames) =>
            \A r \in 1..Len(frames) :
              /\ requests'[r] = requests[r]
              /\ frames'[r] = frames[r]
              /\ executed'[r] = executed[r]]_vars

\* two requests to different routes: the first, to the route with a
\* resolved middleware, has all three steps suspended while its handler is
\* pending; the second, started later, already has its handler done and its
\* middleware resumed
C21_Witness ==
    /\ Len(requests) = 2
    /\ requests[1].layer = 1 /\ requests[2].layer = 2
    /\ Names(executed[1]) = <<"a", "m1", Undefined>>
    /\ frames[1] = <<"awaiting", "awaiting", "awaiting">>
    /\ requests[1].pc = "running"
    /\ frames[2] = <<"resumed", "done">>
    /\ requests[2].handled.how = "resolved"

====
